---- MODULE Spec2Model ----
(***************************************************************************)
(* Model of the Codefresh Terraform provider: the Permission, Context and  *)
(* Pipeline resource handlers, their mappers between the declarative tree  *)
(* (schema.ResourceData) and the API objects, and Client.RequestAPI.       *)
(*                                                                         *)
(* A handler is one action: it runs from its first statement to its return *)
(* and records every client call it issues, in order, in `calls`.  The     *)
(* outcome of each client call (success, failure) is chosen by the         *)
(* environment.  The remote service is a store of the objects the provider *)
(* has created.                                                            *)
(***************************************************************************)
EXTENDS Integers, Sequences, FiniteSets, TLC

VARIABLES
    rtype,      \* which part of the provider this behaviour exercises
    op,         \* the last host step: "none", "plan", "create", "read", "update", "delete"
    result,     \* its outcome: "none", "ok", "error", "rejected", "panic"
    errsrc,     \* the rule or client call whose error it returned ("" when none)
    calls,      \* the client calls it issued, in order
    changed,    \* the attribute names the last plan found changed (d.HasChange)
    pstate,     \* Permission: the ResourceData of the managed instance (id = 0: absent)
    pplan,      \* Permission: the planned values, when planned
    planned,    \* TRUE between an accepted plan and its create/update
    premote,    \* Permission: the service's store, id -> permission (id = 0: none)
    nextId,     \* the next identifier the service issues
    ctxState,   \* Context: the ResourceData of the managed instance (id = "": absent)
    ctxRemote,  \* Context: the service's store, name -> Context
    pipeState,  \* Pipeline: the ResourceData of the managed instance (id = 0: absent)
    pipeRemote, \* Pipeline: the service's store, id -> Pipeline
    creq,       \* Client.RequestAPI: the client's host and the RequestOptions
    cresp,      \* Client.RequestAPI: what the transport gives for the request
    cret,       \* Client.RequestAPI: the URL requested, the headers set, the return values
    xtree,      \* mappers: the declarative tree (configuration, ResourceData) given
    xapi,       \* mappers: the API object (Context, Pipeline) given
    xout        \* mappers: what they return

permissionVars == <<pstate, pplan, planned, premote, nextId>>
contextVars == <<ctxState, ctxRemote>>
pipelineVars == <<pipeState, pipeRemote>>
clientVars == <<creq, cresp, cret>>
mapperVars == <<xtree, xapi, xout>>
vars ==
    <<rtype, op, result, errsrc, calls, changed, permissionVars, contextVars, pipelineVars,
      clientVars, mapperVars>>

-----------------------------------------------------------------------------
(* Bounds *)

\* the service issues the identifiers 1..MaxIds and then refuses to create
MaxIds == 2

-----------------------------------------------------------------------------
(* Permission: schema values (resourcePermission) *)

Teams == {"t1", "t2"}
\* "cluster" stands for the kinds that are not "pipeline" ("cluster", "project")
Resources == {"pipeline", "cluster"}
RelatedResources == {"", "project"}
BasicActions == {"create", "read", "update", "delete"}
PipelineOnlyActions == {"run", "approve", "debug"}
Actions == BasicActions \cup PipelineOnlyActions
RuleTypes == {"", "all"}
TagSets == {{}, {"prod"}}

\* the zero value of cfclient.Permission; id 0 is the empty string
ZeroPermission ==
    [id |-> 0, team |-> "", action |-> "", resource |-> "",
     related_resource |-> "", rule_type |-> "", tags |-> {}]

\* the empty ResourceData of a permission: d.Id() and the schema's attributes
ZeroPermissionData ==
    [id |-> 0, _id |-> 0, team |-> "", action |-> "", resource |-> "",
     related_resource |-> "", rule_type |-> "", tags |-> {}]

\* the configurations the schema's per-field validation accepts; _id (optional,
\* computed) is left unset (0) or set to the identifier 1
PermissionKeys ==
    {"_id", "team", "action", "resource", "related_resource", "rule_type", "tags"}

DefaultPermissionConfig ==
    [id |-> 0, _id |-> 0, team |-> "t1", action |-> "create", resource |-> "pipeline",
     related_resource |-> "", rule_type |-> "", tags |-> {}]

\* The configurations the host plans: every action with every resource and
\* related_resource; a change of team, of rule_type, of tags, of tags and team;
\* and _id (optional, computed) set to the identifier 1 instead of left unset (0).
PermissionConfigs ==
    {[DefaultPermissionConfig EXCEPT !.action = a, !.resource = r, !.related_resource = rr] :
        a \in Actions, r \in Resources, rr \in RelatedResources}
    \cup {[DefaultPermissionConfig EXCEPT !.team = "t2"],
          [DefaultPermissionConfig EXCEPT !.rule_type = "all"],
          [DefaultPermissionConfig EXCEPT !.tags = {"prod"}],
          [DefaultPermissionConfig EXCEPT !.tags = {"prod"}, !.team = "t2"],
          [DefaultPermissionConfig EXCEPT !._id = 1]}

\* d.HasChanges(keys...) of a diff whose changed attributes are chg
HasChanges(chg, keys) == (chg \cap keys) # {}

\* a client call: the method, the identifier or the object passed, and what it
\* returned: "ok", "err" (an error) or "nil" (no error and no object)
Call(api, id, perm, res) == [api |-> api, id |-> id, perm |-> perm, res |-> res]
OkErr(ok) == IF ok THEN "ok" ELSE "err"

-----------------------------------------------------------------------------
(* Permission: the validation hook *)

\* a slip: the related_resource rule is evaluated on a change of related_resource only
resourcePermissionCustomDiffRelatedOnly(chg, diff) ==
    IF HasChanges(chg, {"related_resource"})
          /\ diff.related_resource # "" /\ diff.resource # "pipeline"
    THEN "related_resource"
    ELSE IF HasChanges(chg, {"resource", "action"})
          /\ diff.action \in {"run", "approve", "debug"}
          /\ diff.resource # "pipeline"
    THEN "action"
    ELSE ""

\* a slip: "debug" is missing from the list of pipeline-only actions
resourcePermissionCustomDiffNoDebug(chg, diff) ==
    IF HasChanges(chg, {"resource", "related_resource"})
          /\ diff.related_resource # "" /\ diff.resource # "pipeline"
    THEN "related_resource"
    ELSE IF HasChanges(chg, {"resource", "action"})
          /\ diff.action \in {"run", "approve"}
          /\ diff.resource # "pipeline"
    THEN "action"
    ELSE ""

\* "" when the diff is accepted, else the rule that rejects it
resourcePermissionCustomDiff(chg, diff) ==
    IF HasChanges(chg, {"resource", "related_resource"})
          /\ diff.related_resource # "" /\ diff.resource # "pipeline"
    THEN "related_resource"
    ELSE IF HasChanges(chg, {"resource", "action"})
          /\ diff.action \in {"run", "approve", "debug"}
          /\ diff.resource # "pipeline"
    THEN "action"
    ELSE ""

-----------------------------------------------------------------------------
(* Permission: mappers *)

mapResourceToPermission(d) ==
    [id |-> d.id, team |-> d.team, action |-> d.action, resource |-> d.resource,
     related_resource |-> d.related_resource, rule_type |-> d.rule_type,
     tags |-> IF Cardinality(d.tags) > 0 THEN d.tags ELSE {"*", "untagged"}]

mapPermissionToResource(permission, d) ==
    [d EXCEPT !._id = permission.id, !.team = permission.team,
              !.action = permission.action, !.resource = permission.resource,
              !.related_resource = permission.related_resource,
              !.tags = permission.tags, !.rule_type = permission.rule_type]

-----------------------------------------------------------------------------
(* Permission: the service behind cfclient.Client *)

PermissionExists(remote, id) == id \in DOMAIN remote /\ remote[id] # ZeroPermission

\* CreatePermission: res is "ok", "err" or "nil" (no error and no permission)
CreatePermissionOk(nid, res) == res = "ok" /\ nid <= MaxIds
CreatePermissionResult(nid, res) ==
    IF res = "nil" THEN "nil" ELSE OkErr(CreatePermissionOk(nid, res))
\* An object left behind (the swap's delete failed) keeps its identifier only:
\* the provider holds no reference to it once SetId has moved to the new one.
Orphan(p) == IF p = ZeroPermission THEN p ELSE [ZeroPermission EXCEPT !.id = p.id]
CreatePermissionRemote(remote, nid, permission, res) ==
    IF CreatePermissionOk(nid, res)
    THEN [i \in DOMAIN remote |->
            IF i = nid THEN [permission EXCEPT !.id = nid] ELSE Orphan(remote[i])]
    ELSE remote
CreatePermissionNextId(nid, res) == IF CreatePermissionOk(nid, res) THEN nid + 1 ELSE nid

DeletePermissionOk(remote, id, ok) == ok /\ PermissionExists(remote, id)
DeletePermissionRemote(remote, id, ok) ==
    IF DeletePermissionOk(remote, id, ok) THEN [remote EXCEPT ![id] = ZeroPermission]
    ELSE remote

GetPermissionByIDOk(remote, id, ok) == ok /\ PermissionExists(remote, id)

UpdatePermissionTagsOk(remote, permission, ok) == ok /\ PermissionExists(remote, permission.id)
UpdatePermissionTagsRemote(remote, permission, ok) ==
    IF UpdatePermissionTagsOk(remote, permission, ok)
    THEN [remote EXCEPT ![permission.id].tags = permission.tags]
    ELSE remote

-----------------------------------------------------------------------------
(* Permission: the handlers.  Each returns the ResourceData, the service's  *)
(* store, the next identifier, the calls issued and the outcome.            *)

Ret(d, remote, nid, cs, res, src) ==
    [d |-> d, remote |-> remote, nextId |-> nid, calls |-> cs, result |-> res, errsrc |-> src]

resourcePermissionRead(d, remote, nid, cs, readOk) ==
    IF d.id = 0
    THEN Ret(d, remote, nid, cs, "ok", "")
    ELSE LET ok == GetPermissionByIDOk(remote, d.id, readOk)
             cs2 == Append(cs, Call("GetPermissionByID", d.id, ZeroPermission, OkErr(ok)))
         IN IF ~ok
            THEN Ret(d, remote, nid, cs2, "error", "GetPermissionByID")
            ELSE Ret(mapPermissionToResource(remote[d.id], d), remote, nid, cs2, "ok", "")

resourcePermissionDelete(d, remote, nid, cs, delOk) ==
    LET ok == DeletePermissionOk(remote, d.id, delOk)
        cs2 == Append(cs, Call("DeletePermission", d.id, ZeroPermission, OkErr(ok)))
    IN Ret(d, DeletePermissionRemote(remote, d.id, delOk), nid, cs2,
           IF ok THEN "ok" ELSE "error", IF ok THEN "" ELSE "DeletePermission")

resourcePermissionCreate(d, remote, nid, createRes, readOk) ==
    LET permission == mapResourceToPermission(d)
        ok == CreatePermissionOk(nid, createRes)
        cs == <<Call("CreatePermission", 0, permission, CreatePermissionResult(nid, createRes))>>
        remote2 == CreatePermissionRemote(remote, nid, permission, createRes)
        nid2 == CreatePermissionNextId(nid, createRes)
    IN IF createRes = "nil"
       THEN Ret(d, remote2, nid2, cs, "error", "empty response")
       ELSE IF ~ok
       THEN Ret(d, remote2, nid2, cs, "error", "CreatePermission")
       ELSE resourcePermissionRead([d EXCEPT !.id = nid], remote2, nid2, cs, readOk)

\* slips: a tag change also swaps; a rule_type change does not
PermissionSwapKeysWithTags ==
    {"team", "action", "related_resource", "resource", "rule_type", "tags"}
PermissionSwapKeysNoRuleType == {"team", "action", "related_resource", "resource"}

\* the attributes whose change makes the update delete and create the permission
PermissionSwapKeys == {"team", "action", "related_resource", "resource", "rule_type"}
\* the attribute whose change is sent to the service as an update
PermissionTagKeys == {"tags"}

\* a slip: the swap returns the error of its delete instead of logging it
resourcePermissionUpdateReturnsDeleteError(d, chg, remote, nid, delOk, createRes, updOk, readOk) ==
    LET permission == mapResourceToPermission(d)
    IN IF HasChanges(chg, PermissionSwapKeys)
       THEN LET del == resourcePermissionDelete(d, remote, nid, <<>>, delOk)
                ok == CreatePermissionOk(nid, createRes)
                cs == Append(del.calls,
                             Call("CreatePermission", 0, permission,
                                  CreatePermissionResult(nid, createRes)))
                remote2 == CreatePermissionRemote(del.remote, nid, permission, createRes)
                nid2 == CreatePermissionNextId(nid, createRes)
            IN IF del.result # "ok"
               THEN del
               ELSE IF createRes = "nil"
               THEN Ret(d, remote2, nid2, cs, "panic", "nil response")
               ELSE IF ~ok
               THEN Ret(d, remote2, nid2, cs, "error", "CreatePermission")
               ELSE resourcePermissionRead([d EXCEPT !.id = nid], remote2, nid2, cs, readOk)
       ELSE IF HasChanges(chg, PermissionTagKeys)
       THEN LET ok == UpdatePermissionTagsOk(remote, permission, updOk)
                cs == <<Call("UpdatePermissionTags", permission.id, permission, OkErr(ok))>>
                remote2 == UpdatePermissionTagsRemote(remote, permission, updOk)
            IN IF ~ok
               THEN Ret(d, remote2, nid, cs, "error", "UpdatePermissionTags")
               ELSE resourcePermissionRead(d, remote2, nid, cs, readOk)
       ELSE resourcePermissionRead(d, remote, nid, <<>>, readOk)

resourcePermissionUpdate(d, chg, remote, nid, delOk, createRes, updOk, readOk) ==
    LET permission == mapResourceToPermission(d)
    IN IF HasChanges(chg, PermissionSwapKeys)
       THEN LET del == resourcePermissionDelete(d, remote, nid, <<>>, delOk)
                ok == CreatePermissionOk(nid, createRes)
                cs == Append(del.calls,
                             Call("CreatePermission", 0, permission,
                                  CreatePermissionResult(nid, createRes)))
                remote2 == CreatePermissionRemote(del.remote, nid, permission, createRes)
                nid2 == CreatePermissionNextId(nid, createRes)
            IN IF createRes = "nil"
               THEN Ret(d, remote2, nid2, cs, "panic", "nil response")
               ELSE IF ~ok
               THEN Ret(d, remote2, nid2, cs, "error", "CreatePermission")
               ELSE resourcePermissionRead([d EXCEPT !.id = nid], remote2, nid2, cs, readOk)
       ELSE IF HasChanges(chg, PermissionTagKeys)
       THEN LET ok == UpdatePermissionTagsOk(remote, permission, updOk)
                cs == <<Call("UpdatePermissionTags", permission.id, permission, OkErr(ok))>>
                remote2 == UpdatePermissionTagsRemote(remote, permission, updOk)
            IN IF ~ok
               THEN Ret(d, remote2, nid, cs, "error", "UpdatePermissionTags")
               ELSE resourcePermissionRead(d, remote2, nid, cs, readOk)
       ELSE resourcePermissionRead(d, remote, nid, <<>>, readOk)

-----------------------------------------------------------------------------
(* Permission: the host's steps on the managed instance *)

\* the planned values of a configuration against the state: _id is computed
\* when the configuration leaves it unset
PermissionDiff(state, cfg) ==
    [cfg EXCEPT !.id = state.id, !._id = IF cfg._id = 0 THEN state._id ELSE cfg._id]

PermissionChanges(state, diff) == {k \in PermissionKeys : state[k] # diff[k]}

\* plan: the diff of a configuration against the state, then CustomizeDiff
PermissionPlan ==
    /\ rtype = "permission"
    /\ ~planned
    /\ \E cfg \in PermissionConfigs :
         LET diff == PermissionDiff(pstate, cfg)
             chg == PermissionChanges(pstate, diff)
             err == resourcePermissionCustomDiff(chg, diff)
         IN /\ op' = "plan"
            /\ calls' = <<>>
            /\ changed' = chg
            /\ pplan' = diff
            /\ result' = IF err # "" THEN "rejected" ELSE "ok"
            /\ errsrc' = err
            /\ planned' = (err = "" /\ chg # {})
    /\ UNCHANGED <<rtype, pstate, premote, nextId, contextVars, pipelineVars, clientVars,
                   mapperVars>>

PermissionApply(name, r) ==
    /\ op' = name
    /\ calls' = r.calls
    /\ result' = r.result
    /\ errsrc' = r.errsrc
    /\ premote' = r.remote
    /\ nextId' = r.nextId
    /\ planned' = FALSE
    /\ pplan' = ZeroPermissionData
    /\ changed' = IF name \in {"create", "update"} THEN changed ELSE {}
    /\ UNCHANGED <<rtype, contextVars, pipelineVars, clientVars, mapperVars>>

PermissionCreate ==
    /\ rtype = "permission"
    /\ planned /\ pstate.id = 0
    /\ \E createRes \in {"ok", "err", "nil"}, readOk \in BOOLEAN :
         LET r == resourcePermissionCreate(pplan, premote, nextId, createRes, readOk)
         IN /\ PermissionApply("create", r)
            /\ pstate' = IF r.result = "ok" THEN r.d ELSE [pstate EXCEPT !.id = r.d.id]

PermissionUpdate ==
    /\ rtype = "permission"
    /\ planned /\ pstate.id # 0
    /\ \E delOk \in BOOLEAN, createRes \in {"ok", "err", "nil"},
          updOk \in BOOLEAN, readOk \in BOOLEAN :
         LET r == resourcePermissionUpdate(pplan, changed, premote, nextId,
                                           delOk, createRes, updOk, readOk)
         IN /\ PermissionApply("update", r)
            /\ pstate' = IF r.result = "ok" THEN r.d ELSE [pstate EXCEPT !.id = r.d.id]

\* refresh: the host reads the instances its state holds
PermissionRead ==
    /\ rtype = "permission"
    /\ ~planned /\ pstate.id # 0
    /\ \E readOk \in BOOLEAN :
         LET r == resourcePermissionRead(pstate, premote, nextId, <<>>, readOk)
         IN /\ PermissionApply("read", r)
            /\ pstate' = r.d

PermissionDelete ==
    /\ rtype = "permission"
    /\ ~planned /\ pstate.id # 0
    /\ \E delOk \in BOOLEAN :
         LET r == resourcePermissionDelete(pstate, premote, nextId, <<>>, delOk)
         IN /\ PermissionApply("delete", r)
            /\ pstate' = IF r.result = "ok" THEN ZeroPermissionData ELSE pstate

-----------------------------------------------------------------------------
(* Context: the variants, the declarative tree and the mappers.  A map is a  *)
(* function on its keys, a list a sequence, and the zero value of a data     *)
(* block (empty map, empty string, empty list) is <<>>.  A YAML text is the  *)
(* sequence of its lines, each <<key, value>>.                               *)

contextConfig == "config"
contextSecret == "secret"
contextYaml == "yaml"
contextSecretYaml == "secret-yaml"
contextGoogleStorage == "storage.gc"
contextS3Storage == "storage.s3"
contextAzureStorage == "storage.azuref"

\* a slip: the S3 storage variant is missing from the encrypted kinds
encryptedContextTypesNoS3 == {contextSecret, contextSecretYaml, contextAzureStorage}

encryptedContextTypes ==
    {contextSecret, contextSecretYaml, contextS3Storage, contextAzureStorage}

\* contains(slice, element)
contains(slice, element) == element \in slice

\* schemautil.MustNormalizeFieldName: the schema field of a variant
MustNormalizeFieldName(t) ==
    CASE t = "secret-yaml" -> "secret_yaml"
      [] t = "storage.gc" -> "storage_gc"
      [] t = "storage.s3" -> "storage_s3"
      [] t = "storage.azuref" -> "storage_azuref"
      [] OTHER -> t

supportedContextType == <<contextConfig, contextSecret, contextYaml, contextSecretYaml>>

\* getConflictingContexts: the paths "spec.0.<field>" of the supported types
\* other than the given one, a path as <<"spec.0.", field>>
getConflictingContexts(context) ==
    LET normalizedContext == MustNormalizeFieldName(context)
        conflictingTypes ==
            SelectSeq(supportedContextType,
                      LAMBDA value : MustNormalizeFieldName(value) # normalizedContext)
    IN [i \in DOMAIN conflictingTypes |->
            <<"spec.0.", MustNormalizeFieldName(conflictingTypes[i])>>]

ContextFields ==
    {MustNormalizeFieldName(t) :
        t \in {contextConfig, contextSecret, contextYaml, contextSecretYaml,
               contextGoogleStorage, contextS3Storage, contextAzureStorage}}

\* the spec of a tree with no variant block
EmptyContextSpec == [f \in ContextFields |-> <<>>]

\* d.GetOk("spec.0.<field>.0.data"): the data, and whether it is set and not zero
GetData(d, t) == d.spec[MustNormalizeFieldName(t)]
GetOk(d, t) == DOMAIN GetData(d, t) # {}

\* the keys of a map in the order yaml.Marshal writes them
YamlKeyOrder == <<"a", "b">>
EmptyMapYaml == <<<<"{}">>>>

\* yaml.Unmarshal of a text into a map[string]interface{}
YamlUnmarshal(text) ==
    IF text = EmptyMapYaml THEN <<>>
    ELSE [k \in {text[i][1] : i \in DOMAIN text} |->
            text[CHOOSE i \in DOMAIN text : text[i][1] = k][2]]

\* yaml.Marshal of a map: one line per key, the keys sorted
YamlMarshal(m) ==
    IF DOMAIN m = {} THEN EmptyMapYaml
    ELSE LET keys == SelectSeq(YamlKeyOrder, LAMBDA k : k \in DOMAIN m)
         IN [i \in DOMAIN keys |-> <<keys[i], m[keys[i]]>>]

\* storageContext.ConvertJsonConfigStorageContext and its inverse
ConvertJsonConfigStorageContext(data) ==
    [auth |-> [type |-> data[1].auth[1].type, jsonConfig |-> data[1].auth[1].json_config]]
FlattenJsonConfigStorageContextConfig(spec) ==
    <<[data |-> <<[auth |-> <<[type |-> spec.data.auth.type,
                               json_config |-> spec.data.auth.jsonConfig]>>]>>]>>

\* storageContext.ConvertAzureStorageContext and its inverse
ConvertAzureStorageContext(data) ==
    [auth |-> [type |-> data[1].auth[1].type,
               accountName |-> data[1].auth[1].account_name,
               accountKey |-> data[1].auth[1].account_key]]
FlattenAzureStorageContextConfig(spec) ==
    <<[data |-> <<[auth |-> <<[type |-> spec.data.auth.type,
                               account_name |-> spec.data.auth.accountName,
                               account_key |-> spec.data.auth.accountKey]>>]>>]>>

flattenContextConfig(spec) == <<[data |-> spec.data]>>
flattenContextYaml(spec) == <<[data |-> YamlMarshal(spec.data)]>>

\* a slip: the first case of the switch names contextConfig only
flattenContextSpecConfigOnly(spec) ==
    LET block ==
            IF spec.type \in {contextConfig}
            THEN flattenContextConfig(spec)
            ELSE IF spec.type \in {contextYaml, contextSecretYaml}
            THEN flattenContextYaml(spec)
            ELSE IF spec.type \in {contextGoogleStorage, contextS3Storage}
            THEN FlattenJsonConfigStorageContextConfig(spec)
            ELSE IF spec.type \in {contextAzureStorage}
            THEN FlattenAzureStorageContextConfig(spec)
            ELSE <<>>
    IN IF block = <<>>
       THEN EmptyContextSpec
       ELSE [f \in ContextFields |->
               IF f = MustNormalizeFieldName(spec.type) THEN block[1].data ELSE <<>>]

\* flattenContextSpec: the value d.Set("spec", ...) receives, as the data of
\* each variant field (nil and an absent block read back as the zero value)
flattenContextSpec(spec) ==
    LET block ==
            IF spec.type \in {contextConfig, contextSecret}
            THEN flattenContextConfig(spec)
            ELSE IF spec.type \in {contextYaml, contextSecretYaml}
            THEN flattenContextYaml(spec)
            ELSE IF spec.type \in {contextGoogleStorage, contextS3Storage}
            THEN FlattenJsonConfigStorageContextConfig(spec)
            ELSE IF spec.type \in {contextAzureStorage}
            THEN FlattenAzureStorageContextConfig(spec)
            ELSE <<>>
    IN IF block = <<>>
       THEN EmptyContextSpec
       ELSE [f \in ContextFields |->
               IF f = MustNormalizeFieldName(spec.type) THEN block[1].data ELSE <<>>]

\* a slip: the YAML variant is looked for before the secret one
getContextTypeFromResourceYamlFirst(d) ==
    IF GetOk(d, contextConfig) THEN contextConfig
    ELSE IF GetOk(d, contextYaml) THEN contextYaml
    ELSE IF GetOk(d, contextSecret) THEN contextSecret
    ELSE IF GetOk(d, contextSecretYaml) THEN contextSecretYaml
    ELSE IF GetOk(d, contextGoogleStorage) THEN contextGoogleStorage
    ELSE IF GetOk(d, contextS3Storage) THEN contextS3Storage
    ELSE IF GetOk(d, contextAzureStorage) THEN contextAzureStorage
    ELSE ""

getContextTypeFromResource(d) ==
    IF GetOk(d, contextConfig) THEN contextConfig
    ELSE IF GetOk(d, contextSecret) THEN contextSecret
    ELSE IF GetOk(d, contextYaml) THEN contextYaml
    ELSE IF GetOk(d, contextSecretYaml) THEN contextSecretYaml
    ELSE IF GetOk(d, contextGoogleStorage) THEN contextGoogleStorage
    ELSE IF GetOk(d, contextS3Storage) THEN contextS3Storage
    ELSE IF GetOk(d, contextAzureStorage) THEN contextAzureStorage
    ELSE ""

\* cfclient.Context: Metadata.Name, Spec.Type, Spec.Data (nil: <<>>)
Context(name, type, data) == [name |-> name, spec |-> [type |-> type, data |-> data]]

\* a slip: the secret-yaml branch parses the data of the yaml block
mapResourceToContextYamlData(d) ==
    IF GetOk(d, contextConfig)
    THEN Context(d.name, contextConfig, GetData(d, contextConfig))
    ELSE IF GetOk(d, contextSecret)
    THEN Context(d.name, contextSecret, GetData(d, contextSecret))
    ELSE IF GetOk(d, contextYaml)
    THEN Context(d.name, contextYaml, YamlUnmarshal(GetData(d, contextYaml)))
    ELSE IF GetOk(d, contextSecretYaml)
    THEN Context(d.name, contextSecretYaml, YamlUnmarshal(GetData(d, contextYaml)))
    ELSE IF GetOk(d, contextGoogleStorage)
    THEN Context(d.name, contextGoogleStorage,
                 ConvertJsonConfigStorageContext(GetData(d, contextGoogleStorage)))
    ELSE IF GetOk(d, contextS3Storage)
    THEN Context(d.name, contextS3Storage,
                 ConvertJsonConfigStorageContext(GetData(d, contextS3Storage)))
    ELSE IF GetOk(d, contextAzureStorage)
    THEN Context(d.name, contextAzureStorage,
                 ConvertAzureStorageContext(GetData(d, contextAzureStorage)))
    ELSE Context(d.name, "", <<>>)

mapResourceToContext(d) ==
    IF GetOk(d, contextConfig)
    THEN Context(d.name, contextConfig, GetData(d, contextConfig))
    ELSE IF GetOk(d, contextSecret)
    THEN Context(d.name, contextSecret, GetData(d, contextSecret))
    ELSE IF GetOk(d, contextYaml)
    THEN Context(d.name, contextYaml, YamlUnmarshal(GetData(d, contextYaml)))
    ELSE IF GetOk(d, contextSecretYaml)
    THEN Context(d.name, contextSecretYaml, YamlUnmarshal(GetData(d, contextSecretYaml)))
    ELSE IF GetOk(d, contextGoogleStorage)
    THEN Context(d.name, contextGoogleStorage,
                 ConvertJsonConfigStorageContext(GetData(d, contextGoogleStorage)))
    ELSE IF GetOk(d, contextS3Storage)
    THEN Context(d.name, contextS3Storage,
                 ConvertJsonConfigStorageContext(GetData(d, contextS3Storage)))
    ELSE IF GetOk(d, contextAzureStorage)
    THEN Context(d.name, contextAzureStorage,
                 ConvertAzureStorageContext(GetData(d, contextAzureStorage)))
    ELSE Context(d.name, "", <<>>)

mapContextToResource(context, d) ==
    LET d1 == [d EXCEPT !.name = context.name]
        currentContextType == getContextTypeFromResource(d1)
    IN IF d1.decrypt_spec \/ ~contains(encryptedContextTypes, currentContextType)
       THEN [d1 EXCEPT !.spec = flattenContextSpec(context.spec)]
       ELSE d1

-----------------------------------------------------------------------------
(* Context: the mappers applied to the trees and to the Contexts of the API *)

ZeroContextData == [id |-> "", name |-> "", decrypt_spec |-> FALSE, spec |-> EmptyContextSpec]
NoMapperOutput == [type |-> "", context |-> Context("", "", <<>>), tree |-> ZeroContextData]

\* the data blocks tried for each variant field: none, or data of the field's
\* type; for the YAML variants a text as yaml.Marshal writes it and one that
\* lists the same keys in another order
ContextDataOf(f) ==
    CASE f = "config" -> {<<>>, [k \in {"a"} |-> "1"]}
      [] f = "secret" -> {<<>>, [k \in {"a", "b"} |-> IF k = "a" THEN "2" ELSE "3"]}
      [] f = "yaml" -> {<<>>, <<<<"a", "4">>, <<"b", "5">>>>, <<<<"b", "5">>, <<"a", "4">>>>}
      [] f = "secret_yaml" -> {<<>>, <<<<"a", "6">>>>, <<<<"b", "7">>, <<"a", "6">>>>}
      [] f = "storage_gc" ->
            {<<>>, <<[auth |-> <<[type |-> "basic", json_config |-> "gc-key"]>>]>>}
      [] f = "storage_s3" ->
            {<<>>, <<[auth |-> <<[type |-> "basic", json_config |-> "s3-key"]>>]>>}
      [] f = "storage_azuref" ->
            {<<>>, <<[auth |-> <<[type |-> "basic", account_name |-> "acc",
                                  account_key |-> "az-key"]>>]>>}

\* every tree over these blocks, several variants populated or none included
ContextSpecs ==
    {[config |-> c, secret |-> s, yaml |-> y, secret_yaml |-> sy,
      storage_gc |-> gc, storage_s3 |-> s3, storage_azuref |-> az] :
        c \in ContextDataOf("config"), s \in ContextDataOf("secret"),
        y \in ContextDataOf("yaml"), sy \in ContextDataOf("secret_yaml"),
        gc \in ContextDataOf("storage_gc"), s3 \in ContextDataOf("storage_s3"),
        az \in ContextDataOf("storage_azuref")}

ContextTrees ==
    {[id |-> "ctx", name |-> "ctx", decrypt_spec |-> dec, spec |-> sp] :
        dec \in BOOLEAN, sp \in ContextSpecs}

ApiMaps == {<<>>, [k \in {"a"} |-> "1"], [k \in {"a", "b"} |-> IF k = "a" THEN "8" ELSE "9"]}

\* what the service may return: each variant with data of its shape, an
\* unknown type and no type at all
ApiContextSpecs ==
    {[type |-> t, data |-> m] :
        t \in {contextConfig, contextSecret, contextYaml, contextSecretYaml}, m \in ApiMaps}
    \cup {[type |-> t, data |-> [auth |-> [type |-> "basic", jsonConfig |-> "api-key"]]] :
            t \in {contextGoogleStorage, contextS3Storage}}
    \cup {[type |-> contextAzureStorage,
           data |-> [auth |-> [type |-> "basic", accountName |-> "acc", accountKey |-> "api-key"]]]}
    \cup {[type |-> t, data |-> <<>>] : t \in {"", "git.github"}}

ApiContexts == {[name |-> n, spec |-> sp] : n \in {"ctx", "renamed"}, sp \in ApiContextSpecs}

MapperStep(name, out) ==
    /\ rtype = "mappers"
    /\ op = "none"
    /\ op' = name
    /\ xout' = out
    /\ UNCHANGED <<rtype, result, errsrc, calls, changed, permissionVars, contextVars,
                   pipelineVars, clientVars, xtree, xapi>>

ContextGetType ==
    MapperStep("getContextTypeFromResource",
               [xout EXCEPT !.type = getContextTypeFromResource(xtree)])

ContextToAPI ==
    MapperStep("mapResourceToContext", [xout EXCEPT !.context = mapResourceToContext(xtree)])

\* fromAPI(toAPI(tree))
ContextRoundTrip ==
    MapperStep("roundtrip",
               [xout EXCEPT !.context = mapResourceToContext(xtree),
                            !.tree = mapContextToResource(mapResourceToContext(xtree), xtree)])

ContextFromAPI ==
    MapperStep("mapContextToResource", [xout EXCEPT !.tree = mapContextToResource(xapi, xtree)])

\* the variant fields resourceContext declares with ConflictsWith
ConflictsWithFields == {contextConfig, contextSecret, contextYaml, contextSecretYaml}

\* the schema's ConflictsWith check of a tree: no declared field is set together
\* with a path its ConflictsWith names
ConflictsWithAccepts(d) ==
    \A t \in ConflictsWithFields :
        d.spec[MustNormalizeFieldName(t)] # <<>> =>
            \A i \in DOMAIN getConflictingContexts(t) :
                d.spec[getConflictingContexts(t)[i][2]] = <<>>

\* schema validation of a tree
ContextValidate ==
    MapperStep("validate",
               [conflicts |-> [f \in ContextFields |->
                                 getConflictingContexts(
                                     CHOOSE t \in {contextConfig, contextSecret, contextYaml,
                                                    contextSecretYaml, contextGoogleStorage,
                                                    contextS3Storage, contextAzureStorage} :
                                         MustNormalizeFieldName(t) = f)],
                accepted |-> ConflictsWithAccepts(xtree)])

-----------------------------------------------------------------------------
(* Context: the service behind cfclient.Client, the handlers and the host   *)

ContextNames == {"ctx"}
NoContext == Context("", "", <<>>)
ContextCall(api, name, context, decrypt, res) ==
    [api |-> api, id |-> name, context |-> context, decrypt |-> decrypt, res |-> res]

ContextExists(remote, name) == name \in DOMAIN remote /\ remote[name] # NoContext

CreateContextOk(remote, context, ok) == ok /\ context.name \in DOMAIN remote
CreateContextRemote(remote, context, ok) ==
    IF CreateContextOk(remote, context, ok) THEN [remote EXCEPT ![context.name] = context]
    ELSE remote

\* the values of an encrypted variant as the service gives them without decrypt
MaskContextData(type, data) ==
    IF type \in {contextSecret, contextSecretYaml}
    THEN [k \in DOMAIN data |-> "*****"]
    ELSE [auth |-> [k \in DOMAIN data.auth |->
                      IF k = "type" THEN data.auth[k] ELSE "*****"]]

GetContextOk(remote, name, ok) == ok /\ ContextExists(remote, name)
GetContextResult(remote, name, decrypt) ==
    LET context == remote[name]
    IN IF contains(encryptedContextTypes, context.spec.type) /\ ~decrypt
       THEN Context(context.name, context.spec.type,
                    MaskContextData(context.spec.type, context.spec.data))
       ELSE context

UpdateContextOk(remote, context, ok) == ok /\ ContextExists(remote, context.name)
UpdateContextRemote(remote, context, ok) ==
    IF UpdateContextOk(remote, context, ok) THEN [remote EXCEPT ![context.name] = context]
    ELSE remote

DeleteContextOk(remote, name, ok) == ok /\ ContextExists(remote, name)
DeleteContextRemote(remote, name, ok) ==
    IF DeleteContextOk(remote, name, ok) THEN [remote EXCEPT ![name] = NoContext]
    ELSE remote

resourceContextRead(d, remote, nid, cs, getOk) ==
    LET contextName == d.id
        currentContextType == getContextTypeFromResource(d)
        setExplicitDecrypt ==
            contains(encryptedContextTypes, currentContextType) /\ d.decrypt_spec
    IN IF contextName = ""
       THEN Ret(d, remote, nid, cs, "ok", "")
       ELSE LET ok == GetContextOk(remote, contextName, getOk)
                cs2 == Append(cs, ContextCall("GetContext", contextName, NoContext,
                                              setExplicitDecrypt, OkErr(ok)))
            IN IF ~ok
               THEN Ret(d, remote, nid, cs2, "error", "GetContext")
               ELSE Ret(mapContextToResource(
                            GetContextResult(remote, contextName, setExplicitDecrypt), d),
                        remote, nid, cs2, "ok", "")

\* a slip: the handler returns once the context is created, without reading it
resourceContextCreateNoRead(d, remote, nid, createOk, getOk) ==
    LET context == mapResourceToContext(d)
        ok == CreateContextOk(remote, context, createOk)
        cs == <<ContextCall("CreateContext", context.name, context, FALSE, OkErr(ok))>>
        remote2 == CreateContextRemote(remote, context, createOk)
    IN IF ~ok
       THEN Ret(d, remote2, nid, cs, "error", "CreateContext")
       ELSE Ret([d EXCEPT !.id = context.name], remote2, nid, cs, "ok", "")

resourceContextCreate(d, remote, nid, createOk, getOk) ==
    LET context == mapResourceToContext(d)
        ok == CreateContextOk(remote, context, createOk)
        cs == <<ContextCall("CreateContext", context.name, context, FALSE, OkErr(ok))>>
        remote2 == CreateContextRemote(remote, context, createOk)
    IN IF ~ok
       THEN Ret(d, remote2, nid, cs, "error", "CreateContext")
       ELSE resourceContextRead([d EXCEPT !.id = context.name], remote2, nid, cs, getOk)

\* a slip: the handler returns once the context is updated, without reading it
resourceContextUpdateNoRead(d, remote, nid, updOk, getOk) ==
    LET context == [mapResourceToContext(d) EXCEPT !.name = d.id]
        ok == UpdateContextOk(remote, context, updOk)
        cs == <<ContextCall("UpdateContext", context.name, context, FALSE, OkErr(ok))>>
        remote2 == UpdateContextRemote(remote, context, updOk)
    IN IF ~ok
       THEN Ret(d, remote2, nid, cs, "error", "UpdateContext")
       ELSE Ret(d, remote2, nid, cs, "ok", "")

resourceContextUpdate(d, remote, nid, updOk, getOk) ==
    LET context == [mapResourceToContext(d) EXCEPT !.name = d.id]
        ok == UpdateContextOk(remote, context, updOk)
        cs == <<ContextCall("UpdateContext", context.name, context, FALSE, OkErr(ok))>>
        remote2 == UpdateContextRemote(remote, context, updOk)
    IN IF ~ok
       THEN Ret(d, remote2, nid, cs, "error", "UpdateContext")
       ELSE resourceContextRead(d, remote2, nid, cs, getOk)

resourceContextDelete(d, remote, nid, delOk) ==
    LET ok == DeleteContextOk(remote, d.id, delOk)
        cs == <<ContextCall("DeleteContext", d.id, NoContext, FALSE, OkErr(ok))>>
    IN Ret(d, DeleteContextRemote(remote, d.id, delOk), nid, cs,
           IF ok THEN "ok" ELSE "error", IF ok THEN "" ELSE "DeleteContext")

\* the configurations: one variant block each (the schema's ConflictsWith)
ContextConfigs ==
    {t \in ContextTrees : Cardinality({f \in ContextFields : t.spec[f] # <<>>}) = 1}

ContextApply(name, r) ==
    /\ op' = name
    /\ calls' = r.calls
    /\ result' = r.result
    /\ errsrc' = r.errsrc
    /\ ctxRemote' = r.remote
    /\ UNCHANGED <<rtype, changed, permissionVars, pipelineVars, clientVars, mapperVars>>

\* the host keeps what the handler left in d once d has an identifier
ContextCreate ==
    /\ rtype = "context"
    /\ ctxState.id = ""
    /\ \E cfg \in ContextConfigs, createOk \in BOOLEAN, getOk \in BOOLEAN :
         LET r == resourceContextCreate([cfg EXCEPT !.id = ""], ctxRemote, nextId,
                                        createOk, getOk)
         IN /\ ContextApply("create", r)
            /\ ctxState' = IF r.d.id # "" THEN r.d ELSE ctxState

\* name and the variant blocks are ForceNew: an update keeps both
ContextUpdate ==
    /\ rtype = "context"
    /\ ctxState.id # ""
    /\ \E cfg \in ContextConfigs, updOk \in BOOLEAN, getOk \in BOOLEAN :
         /\ cfg.name = ctxState.name
         /\ getContextTypeFromResource(cfg) = getContextTypeFromResource(ctxState)
         /\ [cfg EXCEPT !.id = ctxState.id] # ctxState
         /\ LET r == resourceContextUpdate([cfg EXCEPT !.id = ctxState.id], ctxRemote,
                                           nextId, updOk, getOk)
            IN /\ ContextApply("update", r)
               /\ ctxState' = r.d

ContextRead ==
    /\ rtype = "context"
    /\ ctxState.id # ""
    /\ \E getOk \in BOOLEAN :
         LET r == resourceContextRead(ctxState, ctxRemote, nextId, <<>>, getOk)
         IN /\ ContextApply("read", r)
            /\ ctxState' = IF r.result = "ok" THEN r.d ELSE ctxState

ContextDelete ==
    /\ rtype = "context"
    /\ ctxState.id # ""
    /\ \E delOk \in BOOLEAN :
         LET r == resourceContextDelete(ctxState, ctxRemote, nextId, delOk)
         IN /\ ContextApply("delete", r)
            /\ ctxState' = IF r.result = "ok" THEN ZeroContextData ELSE ctxState

-----------------------------------------------------------------------------
(* Pipeline: the schema, the mappers, the service, the handlers and the host *)

\* the schema's Default of each field of a block, the zero value where it has none
SpecDefaults ==
    [priority |-> 0, concurrency |-> 0, spec_template |-> <<>>, variables |-> <<>>,
     trigger |-> <<>>]
SpecTemplateDefaults ==
    [location |-> "git", repo |-> "", path |-> "", revision |-> "", context |-> "github"]
TriggerDefaults ==
    [name |-> "", description |-> "", type |-> "git", repo |-> "",
     branch_regex |-> "/.*/gi", modified_files_glob |-> "", events |-> <<>>,
     provider |-> "github", disabled |-> FALSE, context |-> "github", variables |-> <<>>]

\* a block of the configuration read through the schema
WithDefaults(block, defaults) ==
    [k \in DOMAIN defaults |-> IF k \in DOMAIN block THEN block[k] ELSE defaults[k]]

ZeroPipelineData ==
    [id |-> 0, name |-> "", project_id |-> "", tags |-> {}, spec |-> SpecDefaults]

\* the ResourceData planned for a configuration
PipelineData(cfg) ==
    LET spec == WithDefaults(cfg.spec, SpecDefaults)
    IN [id |-> 0, name |-> cfg.name, project_id |-> cfg.project_id, tags |-> cfg.tags,
        spec |-> [spec EXCEPT
                    !.spec_template =
                        [i \in DOMAIN spec.spec_template |->
                            WithDefaults(spec.spec_template[i], SpecTemplateDefaults)],
                    !.trigger =
                        [i \in DOMAIN spec.trigger |->
                            WithDefaults(spec.trigger[i], TriggerDefaults)]]]

\* Pipeline.SetVariables, Trigger.SetVariables: the map as a list of variables
\* (in the order of the map's iteration, which no reader depends on)
SetVariables(variables) == {<<k, variables[k]>> : k \in DOMAIN variables}

\* convertVariables: the list of variables as a map
convertVariables(variables) ==
    IF variables = {} THEN <<>>
    ELSE [k \in {v[1] : v \in variables} |-> (CHOOSE v \in variables : v[1] = k)[2]]

ZeroSpecTemplate ==
    [location |-> "", repo |-> "", path |-> "", revision |-> "", context |-> ""]
ZeroPipeline ==
    [metadata |-> [name |-> "", id |-> 0, project_id |-> "", tags |-> {}],
     spec |-> [spec_template |-> ZeroSpecTemplate, priority |-> 0, concurrency |-> 0,
               variables |-> {}, triggers |-> <<>>]]

\* a slip: every trigger is read at index 0
mapResourceToPipelineFirstTrigger(d) ==
    LET spec_template == d.spec.spec_template
        Get(field) == IF spec_template = <<>> THEN "" ELSE spec_template[1][field]
    IN [metadata |-> [name |-> d.name, id |-> 0, project_id |-> d.project_id,
                      tags |-> d.tags],
        spec |-> [spec_template |->
                      [location |-> Get("location"), repo |-> Get("repo"),
                       path |-> Get("path"), revision |-> Get("revision"),
                       context |-> Get("context")],
                  priority |-> d.spec.priority,
                  concurrency |-> d.spec.concurrency,
                  variables |-> SetVariables(d.spec.variables),
                  triggers |->
                      [idx \in DOMAIN d.spec.trigger |->
                          LET t == d.spec.trigger[1]
                          IN [name |-> t.name, description |-> t.description,
                              type |-> t.type, repo |-> t.repo,
                              branch_regex |-> t.branch_regex,
                              modified_files_glob |-> t.modified_files_glob,
                              provider |-> t.provider, disabled |-> t.disabled,
                              context |-> t.context, events |-> t.events,
                              variables |-> SetVariables(t.variables)]]]]

mapResourceToPipeline(d) ==
    LET spec_template == d.spec.spec_template
        Get(field) == IF spec_template = <<>> THEN "" ELSE spec_template[1][field]
    IN [metadata |-> [name |-> d.name, id |-> 0, project_id |-> d.project_id,
                      tags |-> d.tags],
        spec |-> [spec_template |->
                      [location |-> Get("location"), repo |-> Get("repo"),
                       path |-> Get("path"), revision |-> Get("revision"),
                       context |-> Get("context")],
                  priority |-> d.spec.priority,
                  concurrency |-> d.spec.concurrency,
                  variables |-> SetVariables(d.spec.variables),
                  triggers |->
                      [idx \in DOMAIN d.spec.trigger |->
                          LET t == d.spec.trigger[idx]
                          IN [name |-> t.name, description |-> t.description,
                              type |-> t.type, repo |-> t.repo,
                              branch_regex |-> t.branch_regex,
                              modified_files_glob |-> t.modified_files_glob,
                              provider |-> t.provider, disabled |-> t.disabled,
                              context |-> t.context, events |-> t.events,
                              variables |-> SetVariables(t.variables)]]]]

flattenSpecTemplate(spec) ==
    <<[location |-> spec.location, repo |-> spec.repo, context |-> spec.context,
       revision |-> spec.revision, path |-> spec.path]>>

flattenTriggers(triggers) ==
    [i \in DOMAIN triggers |->
        LET trigger == triggers[i]
        IN [name |-> trigger.name, description |-> trigger.description,
            context |-> trigger.context, repo |-> trigger.repo,
            branch_regex |-> trigger.branch_regex,
            modified_files_glob |-> trigger.modified_files_glob,
            disabled |-> trigger.disabled, provider |-> trigger.provider,
            type |-> trigger.type, events |-> trigger.events,
            variables |-> convertVariables(trigger.variables)]]

\* flattenSpec: the block d.Set("spec", ...) receives; a key the map lacks
\* reads back as the zero value
flattenSpec(spec) ==
    [priority |-> 0,
     concurrency |-> 0,
     trigger |-> IF Len(spec.triggers) > 0 THEN flattenTriggers(spec.triggers) ELSE <<>>,
     spec_template |->
        IF spec.spec_template # ZeroSpecTemplate
        THEN flattenSpecTemplate(spec.spec_template) ELSE <<>>,
     variables |->
        IF Cardinality(spec.variables) # 0 THEN convertVariables(spec.variables) ELSE <<>>]

mapPipelineToResource(pipeline, d) ==
    [d EXCEPT !.name = pipeline.metadata.name,
              !.project_id = pipeline.metadata.project_id,
              !.spec = flattenSpec(pipeline.spec),
              !.tags = pipeline.metadata.tags]

PipelineCall(api, id, pipeline, res) ==
    [api |-> api, id |-> id, pipeline |-> pipeline, res |-> res]

PipelineExists(remote, id) == id \in DOMAIN remote /\ remote[id] # ZeroPipeline

CreatePipelineOk(nid, ok) == ok /\ nid <= MaxIds
CreatePipelineRemote(remote, nid, pipeline, ok) ==
    IF CreatePipelineOk(nid, ok)
    THEN [remote EXCEPT ![nid] = [pipeline EXCEPT !.metadata.id = nid]]
    ELSE remote
CreatePipelineNextId(nid, ok) == IF CreatePipelineOk(nid, ok) THEN nid + 1 ELSE nid

GetPipelineOk(remote, id, ok) == ok /\ PipelineExists(remote, id)

UpdatePipelineOk(remote, pipeline, ok) == ok /\ PipelineExists(remote, pipeline.metadata.id)
UpdatePipelineRemote(remote, pipeline, ok) ==
    IF UpdatePipelineOk(remote, pipeline, ok)
    THEN [remote EXCEPT ![pipeline.metadata.id] = pipeline]
    ELSE remote

DeletePipelineOk(remote, id, ok) == ok /\ PipelineExists(remote, id)
DeletePipelineRemote(remote, id, ok) ==
    IF DeletePipelineOk(remote, id, ok) THEN [remote EXCEPT ![id] = ZeroPipeline]
    ELSE remote

resourcePipelineCreate(d, remote, nid, createOk) ==
    LET pipeline == mapResourceToPipeline(d)
        ok == CreatePipelineOk(nid, createOk)
        cs == <<PipelineCall("CreatePipeline", 0, pipeline, OkErr(ok))>>
        remote2 == CreatePipelineRemote(remote, nid, pipeline, createOk)
        nid2 == CreatePipelineNextId(nid, createOk)
    IN IF ~ok
       THEN Ret(d, remote2, nid2, cs, "error", "CreatePipeline")
       ELSE Ret([d EXCEPT !.id = nid], remote2, nid2, cs, "ok", "")

resourcePipelineRead(d, remote, nid, getOk) ==
    LET pipelineID == d.id
    IN IF pipelineID = 0
       THEN Ret(d, remote, nid, <<>>, "ok", "")
       ELSE LET ok == GetPipelineOk(remote, pipelineID, getOk)
                cs == <<PipelineCall("GetPipeline", pipelineID, ZeroPipeline, OkErr(ok))>>
            IN IF ~ok
               THEN Ret(d, remote, nid, cs, "error", "GetPipeline")
               ELSE Ret(mapPipelineToResource(remote[pipelineID], d), remote, nid, cs,
                        "ok", "")

\* a slip: the handler does not copy d.Id() into pipeline.Metadata.ID
resourcePipelineUpdateNoID(d, remote, nid, updOk) ==
    LET pipeline == mapResourceToPipeline(d)
        ok == UpdatePipelineOk(remote, pipeline, updOk)
        cs == <<PipelineCall("UpdatePipeline", pipeline.metadata.id, pipeline, OkErr(ok))>>
        remote2 == UpdatePipelineRemote(remote, pipeline, updOk)
    IN IF ~ok
       THEN Ret(d, remote2, nid, cs, "error", "UpdatePipeline")
       ELSE Ret(d, remote2, nid, cs, "ok", "")

resourcePipelineUpdate(d, remote, nid, updOk) ==
    LET pipeline == [mapResourceToPipeline(d) EXCEPT !.metadata.id = d.id]
        ok == UpdatePipelineOk(remote, pipeline, updOk)
        cs == <<PipelineCall("UpdatePipeline", pipeline.metadata.id, pipeline, OkErr(ok))>>
        remote2 == UpdatePipelineRemote(remote, pipeline, updOk)
    IN IF ~ok
       THEN Ret(d, remote2, nid, cs, "error", "UpdatePipeline")
       ELSE Ret(d, remote2, nid, cs, "ok", "")

resourcePipelineDelete(d, remote, nid, delOk) ==
    LET ok == DeletePipelineOk(remote, d.id, delOk)
        cs == <<PipelineCall("DeletePipeline", d.id, ZeroPipeline, OkErr(ok))>>
    IN Ret(d, DeletePipelineRemote(remote, d.id, delOk), nid, cs,
           IF ok THEN "ok" ELSE "error", IF ok THEN "" ELSE "DeletePipeline")

\* the configurations: fields the configuration does not set are left out
PipelineConfigs ==
    {[name |-> "p1", project_id |-> "", tags |-> {},
      spec |-> [spec_template |-> <<[repo |-> "org/repo", path |-> "./cf.yml",
                                     revision |-> "master"]>>]],
     [name |-> "p1", project_id |-> "", tags |-> {},
      spec |-> [spec_template |-> <<[repo |-> "org/repo", path |-> "./cf.yml",
                                     revision |-> "master"]>>,
                variables |-> [k \in {"a"} |-> "1"],
                trigger |-> <<[name |-> "t1", repo |-> "org/repo",
                               events |-> <<"push.heads">>]>>]],
     [name |-> "p1", project_id |-> "", tags |-> {},
      spec |-> [priority |-> 5,
                spec_template |-> <<[repo |-> "org/repo", path |-> "./cf.yml",
                                     revision |-> "master", context |-> "git2"]>>,
                trigger |-> <<[name |-> "t1", type |-> "git", repo |-> "org/repo",
                               branch_regex |-> "/main/gi", disabled |-> TRUE,
                               variables |-> [k \in {"b"} |-> "2"]],
                              [name |-> "t2"]>>]],
     [name |-> "p2", project_id |-> "prj", tags |-> {"x"}, spec |-> [concurrency |-> 1]]}

PipelineApply(name, r) ==
    /\ op' = name
    /\ calls' = r.calls
    /\ result' = r.result
    /\ errsrc' = r.errsrc
    /\ pipeRemote' = r.remote
    /\ nextId' = r.nextId
    /\ UNCHANGED <<rtype, changed, pstate, pplan, planned, premote, contextVars, clientVars,
                   mapperVars>>

PipelineCreate ==
    /\ rtype = "pipeline"
    /\ pipeState.id = 0
    /\ \E cfg \in PipelineConfigs, createOk \in BOOLEAN :
         LET r == resourcePipelineCreate(PipelineData(cfg), pipeRemote, nextId, createOk)
         IN /\ PipelineApply("create", r)
            /\ pipeState' = IF r.d.id # 0 THEN r.d ELSE pipeState

PipelineUpdate ==
    /\ rtype = "pipeline"
    /\ pipeState.id # 0
    /\ \E cfg \in PipelineConfigs, updOk \in BOOLEAN :
         LET d == [PipelineData(cfg) EXCEPT !.id = pipeState.id]
         IN /\ d # pipeState
            /\ LET r == resourcePipelineUpdate(d, pipeRemote, nextId, updOk)
               IN /\ PipelineApply("update", r)
                  /\ pipeState' = r.d

PipelineRead ==
    /\ rtype = "pipeline"
    /\ pipeState.id # 0
    /\ \E getOk \in BOOLEAN :
         LET r == resourcePipelineRead(pipeState, pipeRemote, nextId, getOk)
         IN /\ PipelineApply("read", r)
            /\ pipeState' = IF r.result = "ok" THEN r.d ELSE pipeState

PipelineDelete ==
    /\ rtype = "pipeline"
    /\ pipeState.id # 0
    /\ \E delOk \in BOOLEAN :
         LET r == resourcePipelineDelete(pipeState, pipeRemote, nextId, delOk)
         IN /\ PipelineApply("delete", r)
            /\ pipeState' = IF r.result = "ok" THEN ZeroPipelineData ELSE pipeState

-----------------------------------------------------------------------------
(* Pipeline: the mappers applied to the configurations and to the Pipelines  *)
(* of the API                                                                *)

\* a block that sets the fields in `set` only
Block(fields, set) == [k \in set |-> fields[k]]

\* trigger blocks that set name and any of type, branch_regex
TriggerBlocks ==
    {Block([name |-> n, type |-> t, branch_regex |-> b], {"name"} \cup set) :
        n \in {"t1", "t2"}, t \in {"git", "cron"}, b \in {"/main/gi"},
        set \in SUBSET {"type", "branch_regex"}}

\* configurations with no, one or two triggers
PipelineTriggerConfigs ==
    {[name |-> "p1", project_id |-> "", tags |-> {}, spec |-> [trigger |-> ts]] :
        ts \in {<<>>} \cup {<<t>> : t \in TriggerBlocks}
                      \cup {<<t, u>> : t \in TriggerBlocks, u \in TriggerBlocks}}

\* Pipelines the service may return
ApiPipelines ==
    {[metadata |-> [name |-> "p9", id |-> 1, project_id |-> prj, tags |-> {"y"}],
      spec |-> [spec_template |-> st, priority |-> pr, concurrency |-> co,
                variables |-> vs, triggers |-> ts]] :
        prj \in {"", "prj"},
        st \in {ZeroSpecTemplate,
                [location |-> "git", repo |-> "org/api", path |-> "./api.yml",
                 revision |-> "main", context |-> "github"]},
        pr \in {0, 5}, co \in {0, 1},
        vs \in {{}, {<<"z", "9">>}},
        ts \in {<<>>,
                <<[name |-> "t9", description |-> "", type |-> "git", repo |-> "org/api",
                   branch_regex |-> "/.*/gi", modified_files_glob |-> "",
                   provider |-> "github", disabled |-> FALSE, context |-> "github",
                   events |-> <<"push.heads">>, variables |-> {<<"w", "8">>}]>>}}

NoPipelineOutput == [pipeline |-> ZeroPipeline, data |-> ZeroPipelineData]

\* toAPI of the ResourceData of a configuration
PipelineToAPI ==
    MapperStep("mapResourceToPipeline",
               [pipeline |-> mapResourceToPipeline(PipelineData(xtree)),
                data |-> PipelineData(xtree)])

\* fromAPI of a Pipeline into the ResourceData of a configuration
PipelineFromAPI ==
    MapperStep("mapPipelineToResource",
               [pipeline |-> xapi,
                data |-> mapPipelineToResource(xapi, PipelineData(xtree))])

-----------------------------------------------------------------------------
(* Client.RequestAPI.  A text is a sequence of pieces; fmt.Sprintf and +=   *)
(* concatenate.                                                             *)

RECURSIVE Join(_, _)
\* strings.Join(arr, sep)
Join(arr, sep) ==
    IF Len(arr) = 0 THEN <<>>
    ELSE IF Len(arr) = 1 THEN arr[1]
    ELSE arr[1] \o <<sep>> \o Join(Tail(arr), sep)

\* the orders in which `for k, v := range qs` may visit the keys of a map
RangeOrders(qs) ==
    {o \in [1..Cardinality(DOMAIN qs) -> DOMAIN qs] :
        \A i, j \in DOMAIN o : i # j => o[i] # o[j]}

\* a slip: every pair is followed by "&", the last one too
ToQSTrailingSeparator(qs, o) ==
    <<"?">> \o Join([i \in DOMAIN o |-> <<o[i], "=", qs[o[i]], "&">>], "")

\* ToQS(qs), the keys visited in the order o
ToQS(qs, o) == <<"?">> \o Join([i \in DOMAIN o |-> <<o[i], "=", qs[o[i]]>>], "&")

\* a slip: the response body is left out of the error of a non-200 status
RequestAPIStatusOnly(client, opt, resp, o) ==
    LET finalURL == client.host \o opt.path \o (IF ~opt.qsNil THEN ToQS(opt.qs, o) ELSE <<>>)
        none == [url |-> <<>>, authorization |-> "", contentType |-> "",
                 bodyNil |-> TRUE, body |-> <<>>, errNil |-> FALSE, err |-> <<>>]
        sent == [none EXCEPT !.url = finalURL, !.authorization = client.token,
                             !.contentType = "application/json; charset=utf-8"]
    IN IF opt.method \notin {"GET", "POST", "PUT", "PATCH", "DELETE"}
       THEN [none EXCEPT !.err = <<"net/http: invalid method ", opt.method>>]
       ELSE IF resp.doErr
       THEN [sent EXCEPT !.err = <<"transport: ", "connection refused">>]
       ELSE IF resp.readErr
       THEN [sent EXCEPT !.err = <<"Failed to read body ", ToString(resp.code), " ", resp.status>>]
       ELSE IF resp.code # 200
       THEN [sent EXCEPT !.err = <<resp.status>>]
       ELSE [sent EXCEPT !.bodyNil = FALSE, !.body = resp.body, !.errNil = TRUE]

\* RequestAPI(opt): the URL requested and the headers set (when a request was
\* sent), and the return values ([]byte, error)
RequestAPI(client, opt, resp, o) ==
    LET finalURL == client.host \o opt.path \o (IF ~opt.qsNil THEN ToQS(opt.qs, o) ELSE <<>>)
        none == [url |-> <<>>, authorization |-> "", contentType |-> "",
                 bodyNil |-> TRUE, body |-> <<>>, errNil |-> FALSE, err |-> <<>>]
        sent == [none EXCEPT !.url = finalURL, !.authorization = client.token,
                             !.contentType = "application/json; charset=utf-8"]
    IN IF opt.method \notin {"GET", "POST", "PUT", "PATCH", "DELETE"}
       THEN [none EXCEPT !.err = <<"net/http: invalid method ", opt.method>>]
       ELSE IF resp.doErr
       THEN [sent EXCEPT !.err = <<"transport: ", "connection refused">>]
       ELSE IF resp.readErr
       THEN [sent EXCEPT !.err = <<"Failed to read body ", ToString(resp.code), " ", resp.status>>]
       ELSE IF resp.code # 200
       THEN [sent EXCEPT !.err = <<resp.status, ", ">> \o resp.body]
       ELSE [sent EXCEPT !.bodyNil = FALSE, !.body = resp.body, !.errNil = TRUE]

NoReturn ==
    [url |-> <<>>, authorization |-> "", contentType |-> "",
     bodyNil |-> TRUE, body |-> <<>>, errNil |-> TRUE, err |-> <<>>]

\* the query-string maps tried: nil, empty, one and two parameters
QueryStrings ==
    {[qsNil |-> TRUE, qs |-> <<>>], [qsNil |-> FALSE, qs |-> <<>>],
     [qsNil |-> FALSE, qs |-> [k \in {"limit"} |-> "10"]],
     [qsNil |-> FALSE, qs |-> [k \in {"limit", "decrypt"} |-> IF k = "limit" THEN "10" ELSE "true"]]}

Requests ==
    {[host |-> <<"https://g.codefresh.io/api">>, token |-> "secret-token",
      path |-> <<pa>>, method |-> m, qsNil |-> q.qsNil, qs |-> q.qs] :
        pa \in {"/abac", "/contexts/c1"}, m \in {"GET", "POST", "G T"}, q \in QueryStrings}

StatusLines ==
    {[code |-> 200, status |-> "200 OK"], [code |-> 201, status |-> "201 Created"],
     [code |-> 404, status |-> "404 Not Found"],
     [code |-> 500, status |-> "500 Internal Server Error"]}

ResponseBodies == {<<>>, <<"{\"message\":\"not found\"}">>, <<"{\"_id\":", "\"p1\"", "}">>}

\* what the transport does: fails, or gives a status and a body that can be
\* read in full or not
Responses ==
    {[doErr |-> TRUE, readErr |-> FALSE, code |-> 0, status |-> "", body |-> <<>>]}
    \cup {[doErr |-> FALSE, readErr |-> re, code |-> st.code, status |-> st.status, body |-> b] :
            re \in BOOLEAN, st \in StatusLines, b \in ResponseBodies}

ClientRequestAPI ==
    /\ rtype = "client"
    /\ op = "none"
    /\ \E o \in RangeOrders(creq.qs) :
         cret' = RequestAPI([host |-> creq.host, token |-> creq.token], creq, cresp, o)
    /\ op' = "RequestAPI"
    /\ UNCHANGED <<rtype, result, errsrc, calls, changed, permissionVars, contextVars,
                   pipelineVars, creq, cresp, mapperVars>>

-----------------------------------------------------------------------------
(* Specification *)

InitCommon ==
    /\ op = "none"
    /\ result = "none"
    /\ errsrc = ""
    /\ calls = <<>>
    /\ changed = {}

InitPermission ==
    /\ pstate = ZeroPermissionData
    /\ pplan = ZeroPermissionData
    /\ planned = FALSE
    /\ premote = [i \in 1..MaxIds |-> ZeroPermission]
    /\ nextId = 1

InitClient ==
    /\ creq = [host |-> <<>>, token |-> "", path |-> <<>>, method |-> "",
               qsNil |-> TRUE, qs |-> <<>>]
    /\ cresp = [doErr |-> FALSE, readErr |-> FALSE, code |-> 0, status |-> "", body |-> <<>>]
    /\ cret = NoReturn

InitContext ==
    /\ ctxState = ZeroContextData
    /\ ctxRemote = [n \in ContextNames |-> NoContext]

InitPipeline ==
    /\ pipeState = ZeroPipelineData
    /\ pipeRemote = [i \in 1..MaxIds |-> ZeroPipeline]

InitMappers ==
    /\ xtree = ZeroContextData
    /\ xapi = Context("", "", <<>>)
    /\ xout = NoMapperOutput

\* the resources' handlers, driven by the host
Init ==
    /\ rtype \in {"permission", "context", "pipeline"}
    /\ InitCommon
    /\ InitPermission
    /\ InitContext
    /\ InitPipeline
    /\ InitClient
    /\ InitMappers

Next ==
    \/ PermissionPlan
    \/ PermissionCreate
    \/ PermissionUpdate
    \/ PermissionRead
    \/ PermissionDelete
    \/ ContextCreate
    \/ ContextUpdate
    \/ ContextRead
    \/ ContextDelete
    \/ PipelineCreate
    \/ PipelineUpdate
    \/ PipelineRead
    \/ PipelineDelete

Spec == Init /\ [][Next]_vars

\* Client.RequestAPI applied to every request and every response of the transport
InitRequestAPI ==
    /\ rtype = "client"
    /\ InitCommon
    /\ InitPermission
    /\ InitContext
    /\ InitPipeline
    /\ creq \in Requests
    /\ cresp \in Responses
    /\ cret = NoReturn
    /\ InitMappers

NextRequestAPI == ClientRequestAPI

SpecRequestAPI == InitRequestAPI /\ [][NextRequestAPI]_vars

\* the Context mappers that read the tree, applied to every tree
InitContextTree ==
    /\ rtype = "mappers"
    /\ InitCommon
    /\ InitPermission
    /\ InitContext
    /\ InitPipeline
    /\ InitClient
    /\ xtree \in ContextTrees
    /\ xapi = Context("", "", <<>>)
    /\ xout = NoMapperOutput

NextContextTree ==
    \/ ContextGetType
    \/ ContextToAPI
    \/ ContextRoundTrip
    \/ ContextValidate

SpecContextTree == InitContextTree /\ [][NextContextTree]_vars

\* mapContextToResource applied to every tree and every Context of the API
InitContextRead ==
    /\ rtype = "mappers"
    /\ InitCommon
    /\ InitPermission
    /\ InitContext
    /\ InitPipeline
    /\ InitClient
    /\ xtree \in ContextTrees
    /\ xapi \in ApiContexts
    /\ xout = NoMapperOutput

NextContextRead == ContextFromAPI

SpecContextRead == InitContextRead /\ [][NextContextRead]_vars

\* the Pipeline mappers applied to every configuration and every Pipeline of the API
InitPipelineMap ==
    /\ rtype = "mappers"
    /\ InitCommon
    /\ InitPermission
    /\ InitContext
    /\ InitPipeline
    /\ InitClient
    /\ xtree \in PipelineTriggerConfigs \cup PipelineConfigs
    /\ xapi \in ApiPipelines
    /\ xout = NoPipelineOutput

NextPipelineMap ==
    \/ PipelineToAPI
    \/ PipelineFromAPI

SpecPipelineMap == InitPipelineMap /\ [][NextPipelineMap]_vars

-----------------------------------------------------------------------------
(* Properties of the Permission handlers *)

CountApi(cs, api) == Cardinality({i \in DOMAIN cs : cs[i].api = api})
ApiSeq(cs) == [i \in DOMAIN cs |-> cs[i].api]
KeyAttributes == {"team", "action", "related_resource", "resource", "rule_type"}

\* C1: an update in which tags changed and none of team, action,
\* related_resource, resource, rule_type did issues exactly one
\* UpdatePermissionTags call, no DeletePermission call and no CreatePermission call.
C1_TagsOnlyUpdate ==
    (rtype = "permission" /\ op = "update" /\ "tags" \in changed /\ changed \cap KeyAttributes = {})
        => /\ CountApi(calls, "UpdatePermissionTags") = 1
           /\ CountApi(calls, "DeletePermission") = 0
           /\ CountApi(calls, "CreatePermission") = 0

C1_Witness ==
    /\ op = "update" /\ changed = {"tags"} /\ result = "ok"
    /\ ApiSeq(calls) = <<"UpdatePermissionTags", "GetPermissionByID">>

\* C2: an update in which any of team, action, related_resource, resource,
\* rule_type changed issues exactly one DeletePermission call, then exactly one
\* CreatePermission call, and no UpdatePermissionTags call, whether or not tags
\* changed too.
C2_KeyChangeSwaps ==
    (rtype = "permission" /\ op = "update" /\ changed \cap KeyAttributes # {})
        => /\ Len(calls) >= 2
           /\ calls[1].api = "DeletePermission"
           /\ calls[2].api = "CreatePermission"
           /\ CountApi(calls, "DeletePermission") = 1
           /\ CountApi(calls, "CreatePermission") = 1
           /\ CountApi(calls, "UpdatePermissionTags") = 0

C2_Witness ==
    /\ op = "update" /\ changed = {"team", "tags"} /\ result = "ok"
    /\ ApiSeq(calls) = <<"DeletePermission", "CreatePermission", "GetPermissionByID">>

\* C3: in the swap a failed DeletePermission is followed by the CreatePermission
\* call all the same, the update never returns the delete's error, and its
\* outcome is the one the create call and the read after it give.
C3_DeleteErrorSwallowed ==
    (rtype = "permission" /\ op = "update" /\ Len(calls) >= 1 /\ calls[1].api = "DeletePermission")
        => /\ Len(calls) >= 2
           /\ calls[2].api = "CreatePermission"
           /\ errsrc # "DeletePermission"
           /\ calls[2].res = "err" => (result = "error" /\ errsrc = "CreatePermission")
           /\ calls[2].res = "nil" => result = "panic"
           /\ calls[2].res = "ok" =>
                /\ Len(calls) = 3
                /\ calls[3].api = "GetPermissionByID"
                /\ calls[3].res = "ok" => result = "ok"
                /\ calls[3].res = "err" => (result = "error" /\ errsrc = "GetPermissionByID")

C3_Witness ==
    /\ op = "update" /\ Len(calls) = 3 /\ result = "ok"
    /\ calls[1].api = "DeletePermission" /\ calls[1].res = "err"
    /\ calls[2].api = "CreatePermission" /\ calls[2].res = "ok"

RelatedResourceMisused(p) == p.related_resource # "" /\ p.resource # "pipeline"

\* C4: a plan with a non-empty related_resource and a resource other than
\* "pipeline" is rejected by the hook with no call issued and nothing to apply,
\* and no call of any handler carries or addresses such a permission.
C4_RelatedResourceRejected ==
    rtype = "permission" =>
        /\ (op = "plan" /\ RelatedResourceMisused(pplan))
               => (result = "rejected" /\ calls = <<>> /\ ~planned)
        /\ \A i \in DOMAIN calls : ~RelatedResourceMisused(calls[i].perm)
        /\ ~RelatedResourceMisused(pstate)
        /\ \A i \in DOMAIN premote : ~RelatedResourceMisused(premote[i])

C4_Witness ==
    /\ op = "plan" /\ result = "rejected" /\ errsrc = "related_resource"
    /\ pstate.id # 0 /\ pstate.related_resource = "project"
    /\ "resource" \in changed /\ "related_resource" \notin changed

PipelineOnlyMisused(p) == p.action \in {"run", "approve", "debug"} /\ p.resource # "pipeline"

\* C5 as stated: run, approve and debug are rejected with a resource other than
\* "pipeline" and accepted with "pipeline"; create, read, update and delete are
\* accepted with every resource.
C5_AsStated ==
    op = "plan" =>
        /\ PipelineOnlyMisused(pplan) => (result = "rejected" /\ calls = <<>> /\ ~planned)
        /\ (pplan.action \in {"run", "approve", "debug"} /\ pplan.resource = "pipeline")
               => result = "ok"
        /\ pplan.action \in {"create", "read", "update", "delete"} => result = "ok"

\* C5 amended: run, approve and debug are rejected with a resource other than
\* "pipeline", before any call, and accepted with "pipeline"; create, read, update
\* and delete are never rejected on account of the action: with them a plan is
\* rejected exactly when related_resource is set and the resource is not "pipeline".
C5_PipelineOnlyActions ==
    /\ op = "plan" =>
        /\ PipelineOnlyMisused(pplan) => (result = "rejected" /\ calls = <<>> /\ ~planned)
        /\ (pplan.action \in {"run", "approve", "debug"} /\ pplan.resource = "pipeline")
               => result = "ok"
        /\ pplan.action \in {"create", "read", "update", "delete"}
               => /\ errsrc # "action"
                  /\ result = "rejected" <=> RelatedResourceMisused(pplan)
    /\ rtype = "permission" => \A i \in DOMAIN calls : ~PipelineOnlyMisused(calls[i].perm)

C5_Witness ==
    /\ op = "plan" /\ result = "rejected" /\ errsrc = "action"
    /\ pplan.action = "debug" /\ pplan.resource = "cluster"
    /\ pstate.id # 0 /\ pstate.action = "debug"

-----------------------------------------------------------------------------
(* Properties of Client.RequestAPI *)

\* the text t contains the text sub verbatim
Contains(t, sub) ==
    \E i \in 0..(Len(t) - Len(sub)) : SubSeq(t, i + 1, i + Len(sub)) = sub

ResponseReceived == op = "RequestAPI" /\ creq.method # "G T" /\ ~cresp.doErr
ReturnsBody == cret.errNil /\ ~cret.bodyNil /\ cret.body = cresp.body
ReturnsStatusError ==
    /\ cret.bodyNil /\ ~cret.errNil
    /\ Contains(cret.err, <<cresp.status>>)
    /\ Contains(cret.err, cresp.body)

\* C6 as stated: once a response is received, RequestAPI returns its body and no
\* error exactly when the status code is 200, and for every other status code no
\* body and an error whose text contains the status line and the body verbatim.
C6_AsStated ==
    ResponseReceived =>
        /\ ReturnsBody <=> cresp.code = 200
        /\ cresp.code # 200 => ReturnsStatusError

\* C6 amended: the same, when the response body is read in full; when reading
\* the body fails, RequestAPI returns no body and an error that names the status
\* line, whatever the status code (200 included).
C6_StatusAndBody ==
    ResponseReceived =>
        /\ ~cresp.readErr =>
              /\ ReturnsBody <=> cresp.code = 200
              /\ cresp.code # 200 => ReturnsStatusError
        /\ cresp.readErr =>
              /\ cret.bodyNil /\ ~cret.errNil
              /\ Contains(cret.err, <<cresp.status>>)
              /\ cret.err[1] = "Failed to read body "

C6_Witness ==
    /\ ResponseReceived /\ ~cresp.readErr
    /\ cresp.code = 404 /\ cresp.body = <<"{\"message\":\"not found\"}">>
    /\ cret.bodyNil /\ ~cret.errNil
    /\ cret.err = <<"404 Not Found", ", ", "{\"message\":\"not found\"}">>

-----------------------------------------------------------------------------
(* Properties of the Context mappers *)

\* the seven variants in their order of precedence, and their schema fields
VariantOrder ==
    <<"config", "secret", "yaml", "secret-yaml", "storage.gc", "storage.s3", "storage.azuref">>
VariantField ==
    <<"config", "secret", "yaml", "secret_yaml", "storage_gc", "storage_s3", "storage_azuref">>
EncryptedVariants == {"secret", "secret-yaml", "storage.s3", "storage.azuref"}

Populated(t) == {i \in DOMAIN VariantField : t.spec[VariantField[i]] # <<>>}
FirstPopulated(t) ==
    IF Populated(t) = {} THEN ""
    ELSE VariantOrder[CHOOSE i \in Populated(t) : \A j \in Populated(t) : i <= j]

\* C7: getContextTypeFromResource returns the first variant, in the order config,
\* secret, yaml, secret-yaml, storage.gc, storage.s3, storage.azuref, whose data
\* block is not empty, and the empty string when none is populated.
C7_FirstPopulatedVariant ==
    op = "getContextTypeFromResource" => xout.type = FirstPopulated(xtree)

C7_Witness ==
    /\ op = "getContextTypeFromResource"
    /\ Populated(xtree) = {2, 3, 6}
    /\ xout.type = "secret"

\* C8: with an encrypted variant in the tree and decrypt_spec false,
\* mapContextToResource leaves the spec of the tree as it was, whatever the
\* service returned; otherwise the spec is the one the service returned: the
\* block of the returned type and no other.
C8_EncryptedSpecUntouched ==
    op = "mapContextToResource" =>
        IF FirstPopulated(xtree) \in EncryptedVariants /\ ~xtree.decrypt_spec
        THEN xout.tree.spec = xtree.spec
        ELSE \A i \in DOMAIN VariantField :
                xout.tree.spec[VariantField[i]] # <<>> => xapi.spec.type = VariantOrder[i]

C8_Witness ==
    /\ op = "mapContextToResource"
    /\ Populated(xtree) = {6} /\ ~xtree.decrypt_spec
    /\ xapi.spec.type = "storage.s3"
    /\ xapi.spec.data.auth.jsonConfig # xtree.spec.storage_s3[1].auth[1].json_config
    /\ xout.tree.spec = xtree.spec

RoundTripCase ==
    /\ op = "roundtrip"
    /\ Cardinality(Populated(xtree)) = 1
    /\ (FirstPopulated(xtree) \notin EncryptedVariants \/ xtree.decrypt_spec)

SortedLinesOf(a, b) ==
    /\ Len(a) = Len(b)
    /\ {a[i] : i \in DOMAIN a} = {b[i] : i \in DOMAIN b}
    /\ \A i \in DOMAIN b : \A j \in DOMAIN b :
          (i < j) => (b[i][1] = "a" /\ b[j][1] = "b")

-----------------------------------------------------------------------------
(* Properties of the three resources' handlers *)

HandlerReturned == op \in {"create", "read", "update", "delete"}

\* C10 as stated: every create, read, update and delete of every resource type
\* issues exactly one HTTP round trip.
C10_AsStated == HandlerReturned => Len(calls) = 1

\* the calls an operation may issue, in order, when none of them fails
RoundTripsOf(resource, operation) ==
    CASE resource = "pipeline" /\ operation = "create" -> {<<"CreatePipeline">>}
      [] resource = "pipeline" /\ operation = "read" -> {<<"GetPipeline">>}
      [] resource = "pipeline" /\ operation = "update" -> {<<"UpdatePipeline">>}
      [] resource = "pipeline" /\ operation = "delete" -> {<<"DeletePipeline">>}
      [] resource = "context" /\ operation = "create" -> {<<"CreateContext", "GetContext">>}
      [] resource = "context" /\ operation = "read" -> {<<"GetContext">>}
      [] resource = "context" /\ operation = "update" -> {<<"UpdateContext", "GetContext">>}
      [] resource = "context" /\ operation = "delete" -> {<<"DeleteContext">>}
      [] resource = "permission" /\ operation = "create" ->
            {<<"CreatePermission", "GetPermissionByID">>}
      [] resource = "permission" /\ operation = "read" -> {<<"GetPermissionByID">>}
      [] resource = "permission" /\ operation = "update" ->
            {<<"DeletePermission", "CreatePermission", "GetPermissionByID">>,
             <<"UpdatePermissionTags", "GetPermissionByID">>,
             <<"GetPermissionByID">>}
      [] resource = "permission" /\ operation = "delete" -> {<<"DeletePermission">>}

IsPrefix(a, b) == Len(a) <= Len(b) /\ \A i \in DOMAIN a : a[i] = b[i]

\* C10 amended: the calls of an operation are issued one after the other, each
\* only when the one before it has returned without error (the delete of a
\* Permission swap excepted).  Create, update and delete of a Pipeline and
\* delete of a Context or Permission issue exactly one call.  Create and update
\* of a Context and create of a Permission issue their call and then one get.
\* Update of a Permission issues delete, create, get on a key change, update,
\* get on a tags change and get alone otherwise.  A read of an instance the
\* state holds issues one get.  An operation that returns an error stops at the
\* call that failed; one that returns no error issued them all.
C10_RoundTrips ==
    HandlerReturned =>
        /\ \E full \in RoundTripsOf(rtype, op) :
              /\ IsPrefix(ApiSeq(calls), full)
              /\ (result = "ok" => ApiSeq(calls) = full)
              /\ (Len(calls) < Len(full) =>
                    /\ result # "ok"
                    /\ Len(calls) > 0
                    /\ calls[Len(calls)].res # "ok")
        /\ \A i \in DOMAIN calls :
              (i < Len(calls) /\ calls[i].res # "ok") =>
                  (rtype = "permission" /\ op = "update" /\ calls[i].api = "DeletePermission")
        /\ (result = "ok" /\ calls # <<>> => calls[Len(calls)].res = "ok")
        /\ (rtype = "pipeline" \/ op \in {"read", "delete"} => Len(calls) = 1)

C10_Witness ==
    /\ rtype = "context" /\ op = "update" /\ result = "ok"
    /\ ApiSeq(calls) = <<"UpdateContext", "GetContext">>

-----------------------------------------------------------------------------
(* Failures *)

HandlerFailsNext == op' \in {"create", "read", "update", "delete"} /\ result' = "error"

\* C11 as stated: a create, read, update or delete that returns an error leaves
\* the service's store as it was before the operation and the resource ID of
\* the instance as it was (of the local state the ID alone is compared here);
\* so the permission an update addressed still exists when the update fails.
C11_AsStated ==
    [][HandlerFailsNext =>
          /\ premote' = premote
          /\ ctxRemote' = ctxRemote
          /\ pipeRemote' = pipeRemote
          /\ pstate'.id = pstate.id
          /\ ctxState'.id = ctxState.id
          /\ pipeState'.id = pipeState.id]_vars

\* the case that refutes it: a swap whose delete succeeded and whose create failed
C11_Witness ==
    /\ rtype = "permission" /\ op = "update" /\ result = "error"
    /\ errsrc = "CreatePermission"
    /\ Len(calls) = 2
    /\ calls[1].api = "DeletePermission" /\ calls[1].res = "ok"
    /\ ~PermissionExists(premote, calls[1].id)
    /\ pstate.id = calls[1].id

-----------------------------------------------------------------------------
(* Identity *)

\* a read or an update of a managed instance returns without error
ReadOrUpdateSucceedsNext == op' \in {"read", "update"} /\ result' = "ok"

\* C12 as stated: a successful read or update leaves the resource ID of the
\* instance as it was, for every resource type, so the ID stays the one set at
\* create until the delete.
C12_AsStated ==
    [][ReadOrUpdateSucceedsNext =>
          /\ pstate'.id = pstate.id
          /\ ctxState'.id = ctxState.id
          /\ pipeState'.id = pipeState.id]_vars

\* the swap of a Permission update created the new permission
SwapCreatedNext ==
    /\ rtype = "permission" /\ op' = "update"
    /\ \E i \in DOMAIN calls' : calls'[i].api = "CreatePermission" /\ calls'[i].res = "ok"

\* C12 amended: every get, update and delete call of a read, update or delete
\* addresses the object by the resource ID alone.  The ID of a Pipeline and of a
\* Context stays the one set at create through every read and update; so does
\* the ID of a Permission through every read and every update that changes tags
\* only, while an update that changes team, action, related_resource, resource or
\* rule_type and creates the new permission replaces the ID by the identifier the
\* service issued for it, and the get that follows addresses the new ID.
C12_IdentityKey ==
    [][op' \in {"read", "update", "delete"} =>
          /\ rtype = "context" =>
                /\ \A i \in DOMAIN calls' : calls'[i].id = ctxState.id
                /\ ctxState'.id = IF op' = "delete" /\ result' = "ok" THEN "" ELSE ctxState.id
          /\ rtype = "pipeline" =>
                /\ \A i \in DOMAIN calls' : calls'[i].id = pipeState.id
                /\ pipeState'.id = IF op' = "delete" /\ result' = "ok" THEN 0 ELSE pipeState.id
          /\ rtype = "permission" =>
                /\ \A i \in DOMAIN calls' :
                      calls'[i].id = CASE calls'[i].api = "CreatePermission" -> 0
                                       [] calls'[i].api = "GetPermissionByID" -> pstate'.id
                                       [] OTHER -> pstate.id
                /\ pstate'.id = IF op' = "delete" /\ result' = "ok" THEN 0
                                ELSE IF SwapCreatedNext THEN nextId
                                ELSE pstate.id
                /\ SwapCreatedNext => (pstate'.id # pstate.id /\ changed \cap KeyAttributes # {})]_vars

C12_Witness ==
    /\ rtype = "permission" /\ op = "update" /\ result = "ok"
    /\ ApiSeq(calls) = <<"DeletePermission", "CreatePermission", "GetPermissionByID">>
    /\ calls[1].id = 1 /\ calls[3].id = 2
    /\ pstate.id = 2

-----------------------------------------------------------------------------
(* Properties of the Pipeline mappers *)

\* the trigger blocks of a configuration
ConfiguredTriggers(cfg) == IF "trigger" \in DOMAIN cfg.spec THEN cfg.spec.trigger ELSE <<>>

\* the value a trigger is sent with for a field: the configured one, or the default
SentAs(block, field, default) == IF field \in DOMAIN block THEN block[field] ELSE default

\* C13: mapResourceToPipeline sends the triggers of the configuration, as many
\* and in the same order, each with its configured fields, and with the schema
\* default for each optional field the configuration leaves out: type "git",
\* branch_regex "/.*/gi", provider and context "github", disabled false.
C13_TriggerDefaults ==
    op = "mapResourceToPipeline" =>
        LET blocks == ConfiguredTriggers(xtree)
            sent == xout.pipeline.spec.triggers
        IN /\ Len(sent) = Len(blocks)
           /\ \A i \in DOMAIN blocks :
                 /\ sent[i].name = SentAs(blocks[i], "name", "")
                 /\ sent[i].type = SentAs(blocks[i], "type", "git")
                 /\ sent[i].branch_regex = SentAs(blocks[i], "branch_regex", "/.*/gi")
                 /\ sent[i].provider = SentAs(blocks[i], "provider", "github")
                 /\ sent[i].context = SentAs(blocks[i], "context", "github")
                 /\ sent[i].disabled = SentAs(blocks[i], "disabled", FALSE)
                 /\ sent[i].modified_files_glob = SentAs(blocks[i], "modified_files_glob", "")
                 /\ sent[i].repo = SentAs(blocks[i], "repo", "")
                 /\ sent[i].events = SentAs(blocks[i], "events", <<>>)

C13_Witness ==
    /\ op = "mapResourceToPipeline"
    /\ Len(ConfiguredTriggers(xtree)) = 2
    /\ DOMAIN xtree.spec.trigger[1] = {"name"} /\ xtree.spec.trigger[1].name = "t2"
    /\ DOMAIN xtree.spec.trigger[2] = {"name", "type"} /\ xtree.spec.trigger[2].type = "cron"
    /\ xout.pipeline.spec.triggers[1].name = "t2"
    /\ xout.pipeline.spec.triggers[1].type = "git"
    /\ xout.pipeline.spec.triggers[1].branch_regex = "/.*/gi"
    /\ xout.pipeline.spec.triggers[2].type = "cron"

\* the variables of the API (a list of key, value) as the map of the tree
VariablesAsMap(variables) ==
    IF variables = {} THEN <<>>
    ELSE [k \in {v[1] : v \in variables} |-> (CHOOSE v \in variables : v[1] = k)[2]]

\* C14 as stated, for a Pipeline: after mapPipelineToResource every field of the
\* tree (name, project_id, tags, priority, concurrency, spec_template, variables,
\* triggers) holds the value of the returned Pipeline, whatever the tree held.
C14_AsStated ==
    op = "mapPipelineToResource" =>
        LET d == xout.data
            pipeline == xapi
        IN /\ d.name = pipeline.metadata.name
           /\ d.project_id = pipeline.metadata.project_id
           /\ d.tags = pipeline.metadata.tags
           /\ d.spec.priority = pipeline.spec.priority
           /\ d.spec.concurrency = pipeline.spec.concurrency
           /\ d.spec.spec_template =
                 IF pipeline.spec.spec_template = ZeroSpecTemplate THEN <<>>
                 ELSE <<pipeline.spec.spec_template>>
           /\ d.spec.variables = VariablesAsMap(pipeline.spec.variables)
           /\ Len(d.spec.trigger) = Len(pipeline.spec.triggers)
           /\ \A i \in DOMAIN d.spec.trigger :
                 d.spec.trigger[i] =
                     [pipeline.spec.triggers[i] EXCEPT !.variables = VariablesAsMap(@)]

\* the case that refutes it: the service returns the priority the tree held, and
\* the tree comes back without it
C14_Witness ==
    /\ op = "mapPipelineToResource"
    /\ "priority" \in DOMAIN xtree.spec /\ xtree.spec.priority = 5
    /\ xapi.spec.priority = 5
    /\ xout.data.spec.priority = 0
    /\ xout.data.name = xapi.metadata.name

-----------------------------------------------------------------------------
(* Properties of the Context schema *)

\* C15 as stated: for each of the seven variants getConflictingContexts names
\* the path of every other variant and never its own, and a tree the schema's
\* ConflictsWith check accepts has exactly one variant populated.
C15_AsStated ==
    op = "validate" =>
        /\ \A i \in DOMAIN VariantField :
              {xout.conflicts[VariantField[i]][k] : k \in DOMAIN xout.conflicts[VariantField[i]]}
                  = {<<"spec.0.", VariantField[j]>> : j \in DOMAIN VariantField \ {i}}
        /\ xout.accepted => Cardinality(Populated(xtree)) = 1

\* the case that refutes it: the paths named for config leave out the storage
\* variants, and a tree with no variant populated passes the check
C15_Witness ==
    /\ op = "validate"
    /\ xout.conflicts.config =
          <<<<"spec.0.", "secret">>, <<"spec.0.", "yaml">>, <<"spec.0.", "secret_yaml">>>>
    /\ Populated(xtree) = {}
    /\ xout.accepted

-----------------------------------------------------------------------------
(* Properties of the request URL *)

RequestSent == op = "RequestAPI" /\ creq.method # "G T"

\* the key=value pairs of qs in some order of its keys, joined with "&"
PairsJoined(qs, text) ==
    \E o \in RangeOrders(qs) : text = Join([i \in DOMAIN o |-> <<o[i], "=", qs[o[i]]>>], "&")

\* C16 as stated: the URL requested is host+path when the QS mapping is nil or
\* empty, and host+path+"?" followed by the key=value pairs joined with "&",
\* each key once, when it holds one parameter or more.
C16_AsStated ==
    RequestSent =>
        IF creq.qsNil \/ DOMAIN creq.qs = {}
        THEN cret.url = creq.host \o creq.path
        ELSE \E text \in {SubSeq(cret.url, Len(creq.host \o creq.path) + 2, Len(cret.url))} :
                /\ cret.url = creq.host \o creq.path \o <<"?">> \o text
                /\ PairsJoined(creq.qs, text)

\* C16 amended: the URL requested is host+path when the QS mapping is nil;
\* when it is not nil the URL is host+path+"?" followed by the key=value pairs
\* joined with "&", each key once, so that an empty mapping that is not nil
\* gives host+path+"?".
C16_RequestURL ==
    RequestSent =>
        IF creq.qsNil
        THEN cret.url = creq.host \o creq.path
        ELSE \E text \in {SubSeq(cret.url, Len(creq.host \o creq.path) + 2, Len(cret.url))} :
                /\ cret.url = creq.host \o creq.path \o <<"?">> \o text
                /\ PairsJoined(creq.qs, text)
                /\ (DOMAIN creq.qs = {} => text = <<>>)

C16_Witness ==
    /\ RequestSent
    /\ ~creq.qsNil /\ DOMAIN creq.qs = {}
    /\ cret.url = <<"https://g.codefresh.io/api", "/abac", "?">>

-----------------------------------------------------------------------------
(* Lifecycle *)

GetCalls == {"GetPermissionByID", "GetContext", "GetPipeline"}
UpdateOrDeleteCalls ==
    {"UpdatePermissionTags", "DeletePermission", "UpdateContext", "DeleteContext",
     "UpdatePipeline", "DeletePipeline"}

CreateOrUpdateSucceeded == op \in {"create", "update"} /\ result = "ok"

\* the last call of the operation read the object back, and the tree is the
\* one the handler refreshed from it
ReReadBeforeReturn ==
    /\ calls # <<>>
    /\ calls[Len(calls)].api \in GetCalls
    /\ calls[Len(calls)].res = "ok"

\* every update or delete call addresses an instance the service created
OnlyCreatedInstances ==
    \A i \in DOMAIN calls :
        calls[i].api \in UpdateOrDeleteCalls =>
            IF rtype = "context" THEN calls[i].id \in ContextNames
            ELSE calls[i].id \in 1..(nextId - 1)

\* C17 as stated: for every resource type a successful create and a successful
\* update end with a re-read of the object, and no update or delete call is
\* issued for an instance that has not been created.
C17_AsStated ==
    /\ CreateOrUpdateSucceeded => ReReadBeforeReturn
    /\ OnlyCreatedInstances

\* C17 amended: a successful create and a successful update of a Permission or
\* of a Context end with a re-read of the object (a successful get, whose result
\* the tree then holds); a create and an update of a Pipeline return after their
\* one call, without a get; no update or delete call is issued for an instance
\* that has not been created.
C17_Lifecycle ==
    /\ (CreateOrUpdateSucceeded /\ rtype \in {"permission", "context"}) =>
          /\ ReReadBeforeReturn
          /\ rtype = "permission" =>
                pstate = mapPermissionToResource(premote[pstate.id], pstate)
          /\ rtype = "context" => calls[Len(calls)].id = ctxState.id
    /\ (op \in {"create", "update"} /\ rtype = "pipeline") =>
          /\ \A i \in DOMAIN calls : calls[i].api \notin GetCalls
          /\ Len(calls) = 1
    /\ OnlyCreatedInstances

C17_Witness ==
    /\ rtype = "pipeline" /\ op = "create" /\ result = "ok"
    /\ ApiSeq(calls) = <<"CreatePipeline">>
    /\ pipeState.id = 1
    /\ PipelineExists(pipeRemote, 1)

-----------------------------------------------------------------------------
(* The Context built from a tree and the type found in the same tree *)

\* the data block of variant t in tree d
BlockOf(d, t) ==
    d.spec[VariantField[CHOOSE i \in DOMAIN VariantOrder : VariantOrder[i] = t]]

\* data holds what the block of variant t holds, and nothing else
TakenFromBlock(data, block, t) ==
    CASE t \in {"config", "secret"} -> data = block
      [] t \in {"yaml", "secret-yaml"} ->
            /\ DOMAIN data = {block[i][1] : i \in DOMAIN block}
            /\ \A i \in DOMAIN block : data[block[i][1]] = block[i][2]
      [] t \in {"storage.gc", "storage.s3"} ->
            /\ DOMAIN data = {"auth"}
            /\ data.auth.type = block[1].auth[1].type
            /\ data.auth.jsonConfig = block[1].auth[1].json_config
      [] t = "storage.azuref" ->
            /\ DOMAIN data = {"auth"}
            /\ data.auth.type = block[1].auth[1].type
            /\ data.auth.accountName = block[1].auth[1].account_name
            /\ data.auth.accountKey = block[1].auth[1].account_key

\* C18: for every tree, with no, one or several variants populated, the type
\* of the Context built by mapResourceToContext is the variant that
\* getContextTypeFromResource returns for the same tree and its data is taken
\* from that variant's data block; with no variant populated the type is empty
\* and there is no data.
C18_TypeAndDataAgree ==
    op = "mapResourceToContext" =>
        LET t == getContextTypeFromResource(xtree)
        IN /\ xout.context.spec.type = t
           /\ xout.context.name = xtree.name
           /\ IF Populated(xtree) = {}
              THEN t = "" /\ xout.context.spec.data = <<>>
              ELSE /\ t = FirstPopulated(xtree)
                   /\ BlockOf(xtree, t) # <<>>
                   /\ TakenFromBlock(xout.context.spec.data, BlockOf(xtree, t), t)

C18_Witness ==
    /\ op = "mapResourceToContext"
    /\ Populated(xtree) = {3, 4, 7}
    /\ getContextTypeFromResource(xtree) = "yaml"
    /\ xout.context.spec.type = "yaml"
    /\ xtree.spec.yaml = <<<<"b", "5">>, <<"a", "4">>>>
    /\ xout.context.spec.data = [k \in {"a", "b"} |-> IF k = "a" THEN "4" ELSE "5"]

====
